---- MODULE Spec2Model ----
(***************************************************************************)
(* CI-V bridge: the serial frame layer (CIVSerial.py), the named command   *)
(* set with its value codec (CIVCommands.py) and the callers that drive    *)
(* them (an API caller, the test.py bridge with its UDP listener thread,   *)
(* and the udp_basic.py server).                                           *)
(*                                                                         *)
(* Python values are tagged records: [ty |-> "none"], [ty |-> "int", i],   *)
(* [ty |-> "str", s] (a sequence of one-character strings) and             *)
(* [ty |-> "bytes", b] (a sequence of 0..255).  Time is counted in ticks   *)
(* of half a second.                                                       *)
(***************************************************************************)
EXTENDS Integers, Sequences, FiniteSets, TLC

VARIABLES radio_addr, commands, rx, pc, req, sent, didRead, elapsed, raw,
          frame, decoded, ret, script, codec, server, is_open, stale

vars == <<radio_addr, commands, rx, pc, req, sent, didRead, elapsed, raw,
          frame, decoded, ret, script, codec, server, is_open, stale>>

(***************************************************************************)
(* Bounds of the model.                                                    *)
(***************************************************************************)
\* frames the serial input buffer can hold at once
MaxRx == 1
\* ticks after which a call's clock stops being advanced
MaxElapsed == 5
\* tokens in a datagram the bridge's listener receives
MaxTokens == 3

(***************************************************************************)
(* Python values and strings.                                              *)
(***************************************************************************)
None == [ty |-> "none"]

PyInt(n) == [ty |-> "int", i |-> n]

PyStr(s) == [ty |-> "str", s |-> s]

PyBytes(b) == [ty |-> "bytes", b |-> b]

DecDigits == <<"0", "1", "2", "3", "4", "5", "6", "7", "8", "9">>

HexLower == <<"0", "1", "2", "3", "4", "5", "6", "7", "8", "9",
              "a", "b", "c", "d", "e", "f">>

LowerChars == <<"a", "b", "c", "d", "e", "f", "g", "h", "i", "j", "k", "l", "m",
                "n", "o", "p", "q", "r", "s", "t", "u", "v", "w", "x", "y", "z">>

UpperChars == <<"A", "B", "C", "D", "E", "F", "G", "H", "I", "J", "K", "L", "M",
                "N", "O", "P", "Q", "R", "S", "T", "U", "V", "W", "X", "Y", "Z">>

IndexOf(c, table) == CHOOSE k \in 1..Len(table) : table[k] = c

IsDigitChar(c) == \E k \in 1..10 : DecDigits[k] = c

DigitVal(c) == IndexOf(c, DecDigits) - 1

UpperChar(c) ==
  IF \E k \in 1..26 : LowerChars[k] = c THEN UpperChars[IndexOf(c, LowerChars)] ELSE c

\* str.upper()
Upper(s) == [k \in 1..Len(s) |-> UpperChar(s[k])]

Reverse(s) == [k \in 1..Len(s) |-> s[Len(s) + 1 - k]]

RECURSIVE NatToStr(_)
NatToStr(n) ==
  IF n < 10 THEN <<DecDigits[n + 1]>>
  ELSE NatToStr(n \div 10) \o <<DecDigits[(n % 10) + 1]>>

\* str(n) of an int
IntToStr(n) == IF n < 0 THEN <<"-">> \o NatToStr(0 - n) ELSE NatToStr(n)

RECURSIVE DigitsToNat(_)
DigitsToNat(s) ==
  IF s = <<>> THEN 0
  ELSE 10 * DigitsToNat(SubSeq(s, 1, Len(s) - 1)) + DigitVal(s[Len(s)])

AllDigits(s) == \A k \in 1..Len(s) : IsDigitChar(s[k])

\* int(s) of a str accepts an optional sign followed by decimal digits
\* (surrounding blanks and digit-group underscores are not among the inputs)
CanParseInt(s) ==
  IF Len(s) > 0 /\ s[1] \in {"-", "+"}
  THEN Len(s) > 1 /\ AllDigits(Tail(s))
  ELSE Len(s) > 0 /\ AllDigits(s)

ParseInt(s) ==
  IF s[1] = "-" THEN 0 - DigitsToNat(Tail(s))
  ELSE IF s[1] = "+" THEN DigitsToNat(Tail(s))
  ELSE DigitsToNat(s)

RECURSIVE LStripZeros(_)
\* s.lstrip("0")
LStripZeros(s) ==
  IF s # <<>> /\ s[1] = "0" THEN LStripZeros(Tail(s)) ELSE s

\* the result of a call that may raise
Ok(v) == [ok |-> TRUE, v |-> v]

Raise(e) == [ok |-> FALSE, exc |-> e]

\* ToInt falling back to 0 where int() raises
ToIntLenient(x) ==
  IF x.ty = "int" THEN Ok(x.i)
  ELSE IF x.ty = "str" /\ CanParseInt(x.s) THEN Ok(ParseInt(x.s))
  ELSE Ok(0)

\* int(x) of a Python value
ToInt(x) ==
  IF x.ty = "int" THEN Ok(x.i)
  ELSE IF x.ty = "str" /\ CanParseInt(x.s) THEN Ok(ParseInt(x.s))
  ELSE IF x.ty = "none" THEN Raise("TypeError")
  ELSE Raise("ValueError")

\* round() of an exact quotient num/den, den > 0: ties go to the even integer
RoundHalfEven(num, den) ==
  LET q == num \div den
      r == num % den
  IN  IF 2 * r > den THEN q + 1
      ELSE IF 2 * r < den THEN q
      ELSE IF q % 2 = 0 THEN q ELSE q + 1

Min(a, b) == IF a < b THEN a ELSE b

Max(a, b) == IF a > b THEN a ELSE b

(***************************************************************************)
(* CIVCommandSet: the command registry and the value codec.                *)
(***************************************************************************)
\* self.commands as built by __init__
InitialCommands ==
  [n \in {"FREQUENCY", "FILTER_WIDTH", "POWER_OUTPUT", "MODE", "QSK", "TUNE"} |->
     CASE n = "FREQUENCY"    -> [Cn |-> 37, Sc |-> 0]
       [] n = "FILTER_WIDTH" -> [Cn |-> 26, Sc |-> 3]
       [] n = "POWER_OUTPUT" -> [Cn |-> 20, Sc |-> 10]
       [] n = "MODE"         -> [Cn |-> 38, Sc |-> 0]
       [] n = "QSK"          -> [Cn |-> 22, Sc |-> 71]
       [] n = "TUNE"         -> [Cn |-> 28, Sc |-> 1]]

\* NibbleDigits with the high nibble masked by 0x7
NibbleDigitsNarrowMask(b) == NatToStr((b \div 16) % 8) \o NatToStr(b % 16)

\* the digits f"{(b >> 4) & 0xF}{b & 0xF}" of one byte
NibbleDigits(b) == NatToStr((b \div 16) % 16) \o NatToStr(b % 16)

RECURSIVE ByteDigits(_)
ByteDigits(bs) ==
  IF bs = <<>> THEN <<>> ELSE NibbleDigits(bs[1]) \o ByteDigits(Tail(bs))

\* int(digits.lstrip("0") or "0")
DigitStrToInt(digits) ==
  LET t == LStripZeros(digits)
  IN  DigitsToNat(IF t = <<>> THEN <<"0">> ELSE t)

\* bcd_to_int_le without the reversal of the bytes
bcd_to_int_be(bcd_bytes) == DigitStrToInt(ByteDigits(bcd_bytes))

bcd_to_int_le(bcd_bytes) == DigitStrToInt(ByteDigits(Reverse(bcd_bytes)))

\* scale_power reading the two bytes as a binary big-endian number
scale_power_binary(raw_bytes) ==
  IF Len(raw_bytes) # 2 THEN 0
  ELSE RoundHalfEven((256 * raw_bytes[1] + raw_bytes[2]) * 100, 255)

scale_power(raw_bytes) ==
  IF Len(raw_bytes) # 2 THEN 0
  ELSE RoundHalfEven(DigitStrToInt(ByteDigits(raw_bytes)) * 100, 255)

\* the mode table, as (code, label) pairs in the order of the source
ModeTable ==
  << [code |-> 0, label |-> <<"L", "S", "B">>],
     [code |-> 1, label |-> <<"U", "S", "B">>],
     [code |-> 2, label |-> <<"A", "M">>],
     [code |-> 3, label |-> <<"C", "W">>],
     [code |-> 4, label |-> <<"R", "T", "T", "Y">>],
     [code |-> 5, label |-> <<"F", "M">>],
     [code |-> 7, label |-> <<"C", "W", "-", "R">>],
     [code |-> 8, label |-> <<"R", "T", "Y", "R">>] >>

\* decode_mode taking the eight labels for the codes 0..7
decode_mode_contiguous(mode_byte) ==
  IF mode_byte \in 0..(Len(ModeTable) - 1)
  THEN ModeTable[mode_byte + 1].label
  ELSE <<"U", "N", "K", "N", "O", "W", "N", "(">> \o IntToStr(mode_byte) \o <<")">>

\* mode_map.get(mode_byte, f"UNKNOWN({mode_byte})")
decode_mode(mode_byte) ==
  IF \E k \in 1..Len(ModeTable) : ModeTable[k].code = mode_byte
  THEN ModeTable[CHOOSE k \in 1..Len(ModeTable) : ModeTable[k].code = mode_byte].label
  ELSE <<"U", "N", "K", "N", "O", "W", "N", "(">> \o IntToStr(mode_byte) \o <<")">>

process_response(name, data) ==
  CASE name = "FREQUENCY"    -> PyInt(bcd_to_int_le(data))
    [] name = "POWER_OUTPUT" -> PyInt(scale_power(data))
    [] name = "FILTER_WIDTH" -> IF data = <<>> THEN None ELSE PyInt(bcd_to_int_le(data))
    [] name = "MODE"         -> IF data = <<>> THEN None ELSE PyStr(decode_mode(data[1]))
    [] name = "QSK"          -> IF data = <<>> THEN None ELSE PyInt(data[1])
    [] OTHER                 -> PyBytes(data)

\* str(int(value)).rjust(length * 2, "0")[-(length * 2):]
PaddedDigits(value, length) ==
  LET s == IntToStr(value)
      p == IF Len(s) >= 2 * length THEN s
           ELSE [k \in 1..(2 * length - Len(s)) |-> "0"] \o s
  IN  SubSeq(p, Len(p) - 2 * length + 1, Len(p))

int_to_bcd_le(value, length) ==
  LET digits == PaddedDigits(value, length)
  IN  IF ~AllDigits(digits) THEN Raise("ValueError")
      ELSE Ok(Reverse([k \in 1..length |->
                 16 * DigitVal(digits[2 * k - 1]) + DigitVal(digits[2 * k])]))

\* power_to_bytes with the low byte first
power_to_bytes_swapped(power) ==
  LET p    == Min(Max(power, 0), 100)
      raw0 == RoundHalfEven(p * 255, 100)
      rawv == Min(Max(raw0, 0), 255)
      s    == PaddedDigits(rawv, 2)
  IN  << 16 * DigitVal(s[3]) + DigitVal(s[4]), 16 * DigitVal(s[1]) + DigitVal(s[2]) >>

power_to_bytes(power) ==
  LET p    == Min(Max(power, 0), 100)
      raw0 == RoundHalfEven(p * 255, 100)
      rawv == Min(Max(raw0, 0), 255)
      s    == PaddedDigits(rawv, 2)
  IN  << 16 * DigitVal(s[1]) + DigitVal(s[2]), 16 * DigitVal(s[3]) + DigitVal(s[4]) >>

filter_width_to_bcd(width) ==
  LET tens == width \div 10
      ones == width % 10
  IN  << 16 * (tens % 16) + (ones % 16) >>

\* encode_mode looking the label up without upper()
encode_mode_case_sensitive(mode) ==
  IF mode.ty = "none" THEN Ok(<<>>)
  ELSE IF mode.ty = "int" THEN Ok(<< mode.i % 256 >>)
  ELSE LET m == mode.s
       IN  IF \E k \in 1..Len(ModeTable) : ModeTable[k].label = m
           THEN Ok(<< ModeTable[CHOOSE k \in 1..Len(ModeTable) :
                                  ModeTable[k].label = m].code >>)
           ELSE IF CanParseInt(mode.s) THEN Ok(<< ParseInt(mode.s) % 256 >>)
           ELSE Raise("ValueError")

encode_mode(mode) ==
  IF mode.ty = "none" THEN Ok(<<>>)
  ELSE IF mode.ty = "int" THEN Ok(<< mode.i % 256 >>)
  ELSE LET m == Upper(mode.s)
       IN  IF \E k \in 1..Len(ModeTable) : ModeTable[k].label = m
           THEN Ok(<< ModeTable[CHOOSE k \in 1..Len(ModeTable) :
                                  ModeTable[k].label = m].code >>)
           ELSE IF CanParseInt(mode.s) THEN Ok(<< ParseInt(mode.s) % 256 >>)
           ELSE Raise("ValueError")

\* data is None, b"" or ""
IsEmptyArg(data) ==
  \/ data.ty = "none"
  \/ data.ty = "bytes" /\ data.b = <<>>
  \/ data.ty = "str" /\ data.s = <<>>

\* process_request_data testing for an empty argument before TUNE
process_request_data_empty_first(name, data) ==
  IF IsEmptyArg(data) THEN Ok(<<>>)
  ELSE IF name = "TUNE" THEN Ok(<<2>>)
  ELSE IF name \in {"FREQUENCY", "POWER_OUTPUT", "FILTER_WIDTH", "QSK"}
  THEN LET n == ToInt(data)
       IN  IF ~n.ok THEN n
           ELSE CASE name = "FREQUENCY"    -> int_to_bcd_le(n.v, 5)
                  [] name = "POWER_OUTPUT" -> Ok(power_to_bytes(n.v))
                  [] name = "FILTER_WIDTH" -> Ok(filter_width_to_bcd(n.v))
                  [] name = "QSK"          -> Ok(<< n.v % 256 >>)
  ELSE IF name = "MODE" THEN encode_mode(data)
  \* the pass-through default is reached by no name of the registry
  ELSE IF data.ty = "bytes" THEN Ok(data.b)
  ELSE Raise("NotARegistryName")

process_request_data(name, data) ==
  IF name = "TUNE" THEN Ok(<<2>>)
  ELSE IF IsEmptyArg(data) THEN Ok(<<>>)
  ELSE IF name \in {"FREQUENCY", "POWER_OUTPUT", "FILTER_WIDTH", "QSK"}
  THEN LET n == ToInt(data)
       IN  IF ~n.ok THEN n
           ELSE CASE name = "FREQUENCY"    -> int_to_bcd_le(n.v, 5)
                  [] name = "POWER_OUTPUT" -> Ok(power_to_bytes(n.v))
                  [] name = "FILTER_WIDTH" -> Ok(filter_width_to_bcd(n.v))
                  [] name = "QSK"          -> Ok(<< n.v % 256 >>)
  ELSE IF name = "MODE" THEN encode_mode(data)
  \* the pass-through default is reached by no name of the registry
  ELSE IF data.ty = "bytes" THEN Ok(data.b)
  ELSE Raise("NotARegistryName")

\* HexUpper without the upper()
HexNoUpper(bs) ==
  IF bs = <<>> THEN <<>>
  ELSE [k \in 1..(2 * Len(bs)) |->
          IF k % 2 = 1 THEN HexLower[(bs[(k + 1) \div 2] \div 16) + 1]
          ELSE HexLower[(bs[k \div 2] % 16) + 1]]

\* raw.hex().upper() of a byte string
HexUpper(bs) ==
  Upper(IF bs = <<>> THEN <<>>
        ELSE [k \in 1..(2 * Len(bs)) |->
                IF k % 2 = 1 THEN HexLower[(bs[(k + 1) \div 2] \div 16) + 1]
                ELSE HexLower[(bs[k \div 2] % 16) + 1]])

(***************************************************************************)
(* CIVSerial: frames on the serial port.                                   *)
(***************************************************************************)
PREAMBLE == <<254, 254>>

EOM == 253

CONTROLLER_ADDR == 206

\* ser timeout=1.0, in ticks
ReadTimeout == 2

\* the 2.0 seconds of receive_response, in ticks
Window == 4

\* send_command with the two addresses in the wrong order
send_command_swapped(radio, command, subcommand, data) ==
  PREAMBLE \o <<CONTROLLER_ADDR>> \o <<radio>> \o command \o subcommand \o data \o <<EOM>>

\* the frame send_command writes
send_command(radio, command, subcommand, data) ==
  PREAMBLE \o <<radio>> \o <<CONTROLLER_ADDR>> \o command \o subcommand \o data \o <<EOM>>

StartsWith(f, prefix) ==
  Len(f) >= Len(prefix) /\ SubSeq(f, 1, Len(prefix)) = prefix

\* Classify with the echo test and the response test exchanged
ClassifyAddrSwapped(f, radio) ==
  IF ~StartsWith(f, PREAMBLE) \/ Len(f) < 6 THEN "malformed"
  ELSE IF f[3] = CONTROLLER_ADDR /\ f[4] = radio THEN "echo"
  ELSE IF f[3] = radio /\ f[4] = CONTROLLER_ADDR THEN "response"
  ELSE "other"

\* the branch of receive_response's loop body a non-empty frame takes
Classify(f, radio) ==
  IF ~StartsWith(f, PREAMBLE) \/ Len(f) < 6 THEN "malformed"
  ELSE IF f[3] = radio /\ f[4] = CONTROLLER_ADDR THEN "echo"
  ELSE IF f[3] = CONTROLLER_ADDR /\ f[4] = radio THEN "response"
  ELSE "other"

\* what receive_response returns for a frame classified as a response
ResponseData(f) ==
  LET body == SubSeq(f, 5, Len(f) - 1)
  IN  IF Len(body) = 1 THEN body
      ELSE IF Len(body) < 2 THEN <<>>
      ELSE SubSeq(body, 3, Len(body))

\* the check at the bottom of the loop body
WindowElapsed(e) == e > Window

(***************************************************************************)
(* The callers and the radio.                                              *)
(***************************************************************************)
Threads == {"main", "listener"}

\* radio addresses a session is configured with
RadioAddrs == {148, 164}

\* names a caller passes to send_command_by_name
Names == {"FREQUENCY", "FILTER_WIDTH", "POWER_OUTPUT", "MODE", "QSK", "TUNE",
          "frequency", "BOGUS"}

\* arguments a caller passes to send_command_by_name
Args == { None, PyStr(<<>>), PyInt(253), PyStr(<<"7">>),
          PyStr(<<"u", "s", "b">>), PyStr(<<"A", "B", "C">>) }

\* the reads test.py makes on its main thread, in order
TestReads == <<"FREQUENCY", "MODE", "FILTER_WIDTH", "POWER_OUTPUT", "QSK">>

\* what one read of the port can return, besides the echo of a written frame
InFrames(radio) ==
  { <<254, 254, CONTROLLER_ADDR, radio, 37, 0, 0, 48, 1, 64, 1, EOM>>,
    <<254, 254, CONTROLLER_ADDR, radio, 251, EOM>>,
    <<254, 254, CONTROLLER_ADDR, radio, 250, EOM>>,
    <<254, 254, CONTROLLER_ADDR, radio, 38, 0, 1, EOM>>,
    <<254, 254, radio, CONTROLLER_ADDR, 37, 0, 0, 48, 1, 64, 1, EOM>>,
    <<254, 254, 0, radio, 37, 0, 0, 48, 1, 64, 1, EOM>>,
    <<0, 37, EOM>>,
    <<254, 254, CONTROLLER_ADDR, radio, 37>>,
    <<254, 254, CONTROLLER_ADDR, radio, 37, 0, 0, 48>> }

\* stale[t] counts the chunks at the head of the input buffer that were
\* already in it when t wrote its request; the read that ends t's call leaves
\* the count as that read found it
NoResult == [kind |-> "none"]

Error(e) == [kind |-> "error", exc |-> e]

Value(v) == [kind |-> "value", v |-> v]

NoRequest == [name |-> "", data |-> None, data_bytes |-> <<>>]

\* udp_basic's server before its first datagram
NoDatagram ==
  [instruction |-> <<>>, handled |-> FALSE, replies |-> <<>>, stopped |-> FALSE]

NoCodec == [op |-> "none", in |-> None, mid |-> <<>>, out |-> None]

Init ==
  /\ radio_addr \in RadioAddrs
  /\ commands = InitialCommands
  /\ rx = <<>>
  /\ pc = [t \in Threads |-> "idle"]
  /\ req = [t \in Threads |-> NoRequest]
  /\ sent = [t \in Threads |-> <<>>]
  /\ didRead = [t \in Threads |-> FALSE]
  /\ elapsed = [t \in Threads |-> 0]
  /\ raw = [t \in Threads |-> <<>>]
  /\ frame = [t \in Threads |-> <<>>]
  /\ decoded = [t \in Threads |-> FALSE]
  /\ ret = [t \in Threads |-> NoResult]
  /\ script = 0
  /\ codec = NoCodec
  /\ server = NoDatagram
  /\ is_open = TRUE
  /\ stale = [t \in Threads |-> 0]

\* whether send_command_by_name finds the name in the registry
Known(name) == name \in DOMAIN commands

\* UnknownName returning None instead of raising
UnknownNameSilent(name) == Value(None)

\* what send_command_by_name does with a name that is not in the registry
UnknownName(name) == Error("KeyError")

\* send_command_by_name up to the frame it writes: raise, or write and await
SendCommandByName(t, name, data) ==
  /\ pc[t] = "idle"
  /\ IF ~Known(name)
     THEN /\ ret' = [ret EXCEPT ![t] = UnknownName(name)]
          /\ req' = [req EXCEPT ![t] = [name |-> name, data |-> data, data_bytes |-> <<>>]]
          /\ pc' = [pc EXCEPT ![t] = "done"]
          /\ UNCHANGED <<sent, stale>>
     ELSE LET enc == process_request_data(name, data)
          IN  IF ~enc.ok
              THEN /\ ret' = [ret EXCEPT ![t] = Error(enc.exc)]
                   /\ req' = [req EXCEPT ![t] =
                                [name |-> name, data |-> data, data_bytes |-> <<>>]]
                   /\ pc' = [pc EXCEPT ![t] = "done"]
                   /\ UNCHANGED <<sent, stale>>
              ELSE /\ sent' = [sent EXCEPT ![t] = Append(@,
                                 send_command(radio_addr, <<commands[name].Cn>>,
                                              <<commands[name].Sc>>, enc.v))]
                   /\ req' = [req EXCEPT ![t] =
                                [name |-> name, data |-> data, data_bytes |-> enc.v]]
                   /\ pc' = [pc EXCEPT ![t] = "recv"]
                   /\ stale' = [stale EXCEPT ![t] = Len(rx)]
                   /\ UNCHANGED ret
  /\ elapsed' = [elapsed EXCEPT ![t] = 0]
  /\ UNCHANGED <<radio_addr, commands, rx, didRead, raw, frame, decoded, codec>>

\* the end of send_command_by_name: receive_response returned r (its clock,
\* a local of receive_response, is gone)
Finish(t, r) ==
  /\ raw' = [raw EXCEPT ![t] = r]
  /\ elapsed' = [elapsed EXCEPT ![t] = 0]
  /\ pc' = [pc EXCEPT ![t] = "done"]
  /\ IF req[t].data_bytes # <<>> /\ Len(r) = 1
     THEN /\ ret' = [ret EXCEPT ![t] = Value(PyStr(HexUpper(r)))]
          /\ UNCHANGED decoded
     ELSE /\ ret' = [ret EXCEPT ![t] = Value(process_response(req[t].name, r))]
          /\ decoded' = [decoded EXCEPT ![t] = TRUE]

\* one iteration of receive_response's loop in which _read_frame returns bytes:
\* a frame that ends with EOM arrives before the read timeout, a chunk that
\* does not is handed over when the timeout expires
ReadFrame(t) ==
  /\ pc[t] = "recv"
  /\ rx # <<>>
  /\ LET f    == Head(rx)
         kind == Classify(f, radio_addr)
     IN  \E d \in 0..ReadTimeout :
           /\ IF f[Len(f)] = EOM THEN d < ReadTimeout ELSE d = ReadTimeout
           /\ LET e == Min(elapsed[t] + d, MaxElapsed)
                  continue == /\ elapsed' = [elapsed EXCEPT ![t] = e]
                              /\ stale' = [u \in Threads |-> Max(stale[u] - 1, 0)]
                              /\ UNCHANGED <<pc, raw, ret, decoded>>
                  return(r) == /\ Finish(t, r)
                               /\ stale' = [u \in Threads |->
                                              IF u = t THEN stale[u]
                                              ELSE Max(stale[u] - 1, 0)]
              IN  /\ frame' = [frame EXCEPT ![t] = f]
                  /\ CASE kind \in {"malformed", "echo"} -> continue
                       [] kind = "response" -> return(ResponseData(f))
                       [] kind = "other" ->
                            IF WindowElapsed(e) THEN return(<<>>) ELSE continue
  /\ rx' = Tail(rx)
  /\ didRead' = [didRead EXCEPT ![t] = TRUE]
  /\ UNCHANGED <<radio_addr, commands, req, sent, script, codec, server, is_open>>

\* ReadIdle writing the frame once more before giving up
ReadIdleRetry(t) ==
  /\ pc[t] = "recv"
  /\ rx = <<>>
  /\ didRead' = [didRead EXCEPT ![t] = TRUE]
  /\ frame' = [frame EXCEPT ![t] = <<>>]
  /\ IF Len(sent[t]) = 1
     THEN /\ sent' = [sent EXCEPT ![t] = Append(@, sent[t][1])]
          /\ UNCHANGED <<pc, raw, ret, decoded, elapsed>>
     ELSE /\ Finish(t, <<>>)
          /\ UNCHANGED sent
  /\ UNCHANGED <<radio_addr, commands, rx, req, script, codec, server, is_open, stale>>

\* the iteration in which _read_frame times out with nothing received
ReadIdle(t) ==
  /\ pc[t] = "recv"
  /\ rx = <<>>
  /\ didRead' = [didRead EXCEPT ![t] = TRUE]
  /\ frame' = [frame EXCEPT ![t] = <<>>]
  /\ Finish(t, <<>>)
  /\ UNCHANGED <<radio_addr, commands, rx, req, sent, script, codec, server, is_open, stale>>

\* the caller takes the result or the exception; the next call starts afresh
Return(t) ==
  /\ pc[t] = "done"
  /\ pc' = [pc EXCEPT ![t] = "idle"]
  /\ req' = [req EXCEPT ![t] = NoRequest]
  /\ sent' = [sent EXCEPT ![t] = <<>>]
  /\ didRead' = [didRead EXCEPT ![t] = FALSE]
  /\ elapsed' = [elapsed EXCEPT ![t] = 0]
  /\ raw' = [raw EXCEPT ![t] = <<>>]
  /\ frame' = [frame EXCEPT ![t] = <<>>]
  /\ decoded' = [decoded EXCEPT ![t] = FALSE]
  /\ ret' = [ret EXCEPT ![t] = NoResult]
  /\ stale' = [stale EXCEPT ![t] = 0]
  /\ UNCHANGED <<radio_addr, commands, rx, script, codec, server, is_open>>

\* the radio (or the line) puts bytes into the port's input buffer: the echo
\* of a frame being written, or any of InFrames
Deliver(f) ==
  /\ Len(rx) < MaxRx
  /\ rx' = Append(rx, f)
  /\ UNCHANGED <<radio_addr, commands, pc, req, sent, didRead, elapsed, raw, frame,
                 decoded, ret, script, codec, server, is_open, stale>>

Echoes == { sent[t][1] : t \in { u \in Threads : sent[u] # <<>> } }

\* a caller of the command set's API
Call(name, data) ==
  /\ SendCommandByName("main", name, data)
  /\ UNCHANGED <<script, server, is_open>>

Next ==
  \/ \E name \in Names, data \in Args : Call(name, data)
  \/ ReadFrame("main")
  \/ ReadIdle("main")
  \/ Return("main")
  \/ \E f \in InFrames(radio_addr) \cup Echoes : Deliver(f)

Spec == Init /\ [][Next]_vars

(***************************************************************************)
(* test.py: the main thread reads five values while the UDP listener       *)
(* thread runs handle_command for every datagram.                          *)
(***************************************************************************)
MainCall ==
  /\ script < Len(TestReads)
  /\ SendCommandByName("main", TestReads[script + 1], None)
  /\ script' = script + 1
  /\ UNCHANGED <<server, is_open>>

\* handle_command for a datagram of ntok space-separated tokens
HandleCommand(ntok) ==
  /\ ntok <= 2
  /\ SendCommandByName("listener", "FREQUENCY", None)
  /\ UNCHANGED <<script, server, is_open>>

\* handle_command replying FA to a datagram of more than two tokens
HandleInvalid(ntok) ==
  /\ ntok > 2
  /\ pc["listener"] = "idle"
  /\ pc' = [pc EXCEPT !["listener"] = "done"]
  /\ ret' = [ret EXCEPT !["listener"] = Value(PyStr(<<"F", "A">>))]
  /\ UNCHANGED <<radio_addr, commands, rx, req, sent, didRead, elapsed, raw, frame,
                 decoded, script, codec, server, is_open, stale>>

BridgeInit == Init /\ radio_addr = 148

BridgeNext ==
  \/ MainCall
  \/ \E ntok \in 1..MaxTokens : HandleCommand(ntok)
  \/ \E ntok \in 1..MaxTokens : HandleInvalid(ntok)
  \/ \E t \in Threads : ReadFrame(t)
  \/ \E t \in Threads : ReadIdle(t)
  \/ \E t \in Threads : Return(t)
  \/ \E f \in InFrames(radio_addr) \cup Echoes : Deliver(f)

BridgeSpec == BridgeInit /\ [][BridgeNext]_vars

(***************************************************************************)
(* udp_basic.py: run_server takes one instruction datagram at a time,      *)
(* passes it to send_command_by_name and sends the result back.            *)
(***************************************************************************)
Blanks == {" ", "\n"}

RECURSIVE LStrip(_)
LStrip(s) == IF s # <<>> /\ s[1] \in Blanks THEN LStrip(Tail(s)) ELSE s

\* s.strip()
Strip(s) == Reverse(LStrip(Reverse(LStrip(s))))

RECURSIVE SplitFrom(_, _)
\* the tokens of s after the token cur that is being read
SplitFrom(s, cur) ==
  IF s = <<>> THEN << cur >>
  ELSE IF s[1] = " " THEN << cur >> \o SplitFrom(Tail(s), <<>>)
  ELSE SplitFrom(Tail(s), Append(cur, s[1]))

\* s.split(" ")
Split(s) == SplitFrom(s, <<>>)

\* the spelling of the names send_command_by_name is called with
Spelling ==
  [n \in Names |->
     CASE n = "FREQUENCY"    -> <<"F", "R", "E", "Q", "U", "E", "N", "C", "Y">>
       [] n = "FILTER_WIDTH" -> <<"F", "I", "L", "T", "E", "R", "_", "W", "I", "D", "T", "H">>
       [] n = "POWER_OUTPUT" -> <<"P", "O", "W", "E", "R", "_", "O", "U", "T", "P", "U", "T">>
       [] n = "MODE"         -> <<"M", "O", "D", "E">>
       [] n = "QSK"          -> <<"Q", "S", "K">>
       [] n = "TUNE"         -> <<"T", "U", "N", "E">>
       [] n = "frequency"    -> <<"f", "r", "e", "q", "u", "e", "n", "c", "y">>
       [] n = "BOGUS"        -> <<"B", "O", "G", "U", "S">>]

\* the name a token spells; a token that spells none of Names stands for a
\* name that is not in the registry
NameOf(token) ==
  IF \E n \in Names : Spelling[n] = token
  THEN CHOOSE n \in Names : Spelling[n] = token
  ELSE "BOGUS"

\* the text of the datagrams a client sends
Datagrams ==
  { <<"f", "r", "e", "q", "u", "e", "n", "c", "y">>,
    <<"m", "o", "d", "e", " ", "u", "s", "b", "\n">>,
    <<"F", "R", "E", "Q", "U", "E", "N", "C", "Y", " ", "a", "b", "c">>,
    <<"b", "o", "g", "u", "s">>,
    <<"M", "O", "D", "E", " ", " ", "C", "W">>,
    <<>> }

\* str(resp); the repr of a non-empty bytes value is not among the results
\* of Datagrams
StrOf(v) ==
  CASE v.ty = "none"  -> <<"N", "o", "n", "e">>
    [] v.ty = "int"   -> IntToStr(v.i)
    [] v.ty = "str"   -> v.s
    [] v.ty = "bytes" /\ v.b = <<>> -> <<"b", "'", "'">>

InvalidReply == <<"I", "n", "v", "a", "l", "i", "d">>

ErrorReply == <<"E", "r", "r", "o", "r">>

\* recvfrom returns a datagram: the instruction is split, and either refused
\* with Invalid or passed to send_command_by_name
ServerRecv(dg) ==
  /\ ~server.stopped
  /\ pc["main"] = "idle"
  /\ LET instruction == Upper(Strip(dg))
         tokens      == Split(instruction)
     IN  IF Len(tokens) \notin {1, 2}
         THEN /\ server' = [instruction |-> instruction, handled |-> TRUE,
                            replies |-> << InvalidReply >>, stopped |-> FALSE]
              /\ UNCHANGED <<radio_addr, commands, rx, pc, req, sent, didRead,
                             elapsed, raw, frame, decoded, ret, codec, stale>>
         ELSE /\ server' = [instruction |-> instruction, handled |-> FALSE,
                            replies |-> <<>>, stopped |-> FALSE]
              /\ SendCommandByName("main", NameOf(tokens[1]),
                                   IF Len(tokens) = 1 THEN None ELSE PyStr(tokens[2]))
  /\ UNCHANGED <<script, is_open>>

\* the call returned or raised: resp is the result or "Error", and str(resp)
\* is sent to the client
ServerReply ==
  /\ ~server.stopped
  /\ pc["main"] = "done"
  /\ ~server.handled
  /\ server' = [server EXCEPT !.handled = TRUE,
                  !.replies = Append(@, IF ret["main"].kind = "error" THEN ErrorReply
                                        ELSE StrOf(ret["main"].v))]
  /\ UNCHANGED <<radio_addr, commands, rx, pc, req, sent, didRead, elapsed, raw,
                 frame, decoded, ret, script, codec, is_open, stale>>

\* back to recvfrom
ServerLoop ==
  /\ ~server.stopped
  /\ server.handled
  /\ Return("main")

\* a KeyboardInterrupt between the call and the reply reaches the handler
\* of run_server: the socket is closed and the program ends; nothing calls
\* radio.close()
ServerInterrupt ==
  /\ ~server.stopped
  /\ pc["main"] = "done"
  /\ server' = [server EXCEPT !.stopped = TRUE]
  /\ UNCHANGED <<radio_addr, commands, rx, pc, req, sent, didRead, elapsed, raw,
                 frame, decoded, ret, script, codec, is_open, stale>>

ServerInit == Init /\ radio_addr = 148

ServerNext ==
  \/ \E dg \in Datagrams : ServerRecv(dg)
  \/ ReadFrame("main")
  \/ ReadIdle("main")
  \/ ServerReply
  \/ ServerLoop
  \/ ServerInterrupt
  \/ \E f \in InFrames(radio_addr) \cup Echoes : Deliver(f)

ServerSpec == ServerInit /\ [][ServerNext]_vars

(***************************************************************************)
(* The value codec applied to sample inputs.                               *)
(***************************************************************************)
\* frequencies in Hz; the model checker's integers end at 2147483647
FreqSamples ==
  (0..60) \cup {99, 100, 101, 999, 1000, 9999, 14012300, 14013000, 140013000,
                999999999, 1000000000, 1234567890, 2147483647}

EncodeFrequency(h) ==
  /\ int_to_bcd_le(h, 5).ok
  /\ codec' = [op |-> "int_to_bcd_le", in |-> PyInt(h),
               mid |-> int_to_bcd_le(h, 5).v, out |-> None]
  /\ UNCHANGED <<radio_addr, commands, rx, pc, req, sent, didRead, elapsed, raw,
                 frame, decoded, ret, script, server, is_open, stale>>

DecodeFrequency ==
  /\ codec.op = "int_to_bcd_le"
  /\ codec' = [codec EXCEPT !.op = "bcd_to_int_le",
                            !.out = PyInt(bcd_to_int_le(codec.mid))]
  /\ UNCHANGED <<radio_addr, commands, rx, pc, req, sent, didRead, elapsed, raw,
                 frame, decoded, ret, script, server, is_open, stale>>

\* power percentages, inside and outside 0..100
PowerSamples == (-5..105) \cup {-1000, -100, 200, 255, 256, 1000, 100000}

EncodePower(p) ==
  /\ codec.op = "none"
  /\ codec' = [op |-> "power_to_bytes", in |-> PyInt(p),
               mid |-> power_to_bytes(p), out |-> None]
  /\ UNCHANGED <<radio_addr, commands, rx, pc, req, sent, didRead, elapsed, raw,
                 frame, decoded, ret, script, server, is_open, stale>>

DecodePower ==
  /\ codec.op = "power_to_bytes"
  /\ codec' = [codec EXCEPT !.op = "scale_power",
                            !.out = PyInt(scale_power(codec.mid))]
  /\ UNCHANGED <<radio_addr, commands, rx, pc, req, sent, didRead, elapsed, raw,
                 frame, decoded, ret, script, server, is_open, stale>>

\* c.lower() of one character
LowerChar(c) ==
  IF \E j \in 1..26 : UpperChars[j] = c
  THEN LowerChars[CHOOSE j \in 1..26 : UpperChars[j] = c]
  ELSE c

\* the spellings of a label in every mix of upper and lower case
CaseVariants(label) ==
  { s \in [1..Len(label) -> {label[k] : k \in 1..Len(label)}
                              \cup {LowerChar(label[k]) : k \in 1..Len(label)}] :
      \A k \in 1..Len(label) : s[k] \in {label[k], LowerChar(label[k])} }

\* mode arguments: labels in any case, byte values as int and as decimal
\* text, and a word that is neither
ModeSamples ==
  { PyStr(s) : s \in UNION { CaseVariants(ModeTable[k].label) : k \in 1..Len(ModeTable) } }
    \cup { PyInt(b) : b \in 0..255 }
    \cup { PyStr(NatToStr(b)) : b \in 0..255 }
    \cup { PyStr(<<"A", "B", "C">>) }

EncodeMode(m) ==
  /\ codec.op = "none"
  /\ LET enc == encode_mode(m)
     IN  codec' = IF enc.ok
                  THEN [op |-> "encode_mode", in |-> m, mid |-> enc.v, out |-> None]
                  ELSE [op |-> "encode_mode_raised", in |-> m, mid |-> <<>>, out |-> None]
  /\ UNCHANGED <<radio_addr, commands, rx, pc, req, sent, didRead, elapsed, raw,
                 frame, decoded, ret, script, server, is_open, stale>>

\* the byte of a written mode read back from the radio and decoded
DecodeMode ==
  /\ codec.op = "encode_mode"
  /\ codec' = [codec EXCEPT !.op = "decode_mode",
                            !.out = process_response("MODE", codec.mid)]
  /\ UNCHANGED <<radio_addr, commands, rx, pc, req, sent, didRead, elapsed, raw,
                 frame, decoded, ret, script, server, is_open, stale>>

\* data of a MODE response: every first byte, alone or followed by another
ModePayloads ==
  { <<b>> : b \in 0..255 } \cup { <<b, c>> : b \in {1, 6, 9}, c \in {0, 1} } \cup { <<>> }

ProcessModeResponse(data) ==
  /\ codec.op = "none"
  /\ codec' = [op |-> "process_response", in |-> PyBytes(data), mid |-> data,
               out |-> process_response("MODE", data)]
  /\ UNCHANGED <<radio_addr, commands, rx, pc, req, sent, didRead, elapsed, raw,
                 frame, decoded, ret, script, server, is_open, stale>>

CodecNext ==
  \/ \E h \in FreqSamples : EncodeFrequency(h)
  \/ DecodeFrequency
  \/ \E p \in PowerSamples : EncodePower(p)
  \/ DecodePower
  \/ \E m \in ModeSamples : EncodeMode(m)
  \/ DecodeMode
  \/ \E data \in ModePayloads : ProcessModeResponse(data)

CodecSpec == Init /\ [][CodecNext]_vars

(***************************************************************************)
(* Properties.                                                             *)
(***************************************************************************)

\* C1: calls of send_command_by_name on one connection are serialized: while
\* one caller is between writing its frame and getting its result, no other
\* caller has written a frame or reads the port.
C1_Serialized ==
  ~(pc["main"] = "recv" /\ pc["listener"] = "recv")

\* the frame is addressed to the radio by the controller
IsEchoFrame(f) == Len(f) >= 4 /\ f[3] = radio_addr /\ f[4] = 206

\* the frame is a well-formed one addressed to the controller by the radio
IsRadioFrame(f) ==
  Len(f) >= 6 /\ f[1] = 254 /\ f[2] = 254 /\ f[3] = 206 /\ f[4] = radio_addr

\* C2: receive_response stops once the correlation window has elapsed: it
\* never goes on to another read when more than 2 seconds have passed since
\* it started.
C2_StopsAfterWindow ==
  \A t \in Threads : pc[t] = "recv" => elapsed[t] <= 4

\* C3: an echo frame is always discarded: no call ends on an echo frame, and
\* the bytes a call returns or decodes are those of a frame the radio
\* addressed to the controller.
C3_EchoDiscarded ==
  \A t \in Threads :
    pc[t] = "done" /\ didRead[t] =>
      /\ ~IsEchoFrame(frame[t])
      /\ raw[t] # <<>> => IsRadioFrame(frame[t])

C3_Witness ==
  /\ pc["main"] = "recv"
  /\ frame["main"] = <<254, 254, radio_addr, 206, 37, 0, 0, 48, 1, 64, 1, 253>>
  /\ req["main"].name = "FREQUENCY"
  /\ ret["main"].kind = "none"

\* C4: frequency round trip: decoding the 5-byte encoding of h gives h
\* back, and the encoding is exactly 5 bytes of decimal nibbles.
C4_FrequencyRoundTrip ==
  codec.op \in {"int_to_bcd_le", "bcd_to_int_le"} =>
    /\ Len(codec.mid) = 5
    /\ \A k \in 1..Len(codec.mid) :
         codec.mid[k] \div 16 \in 0..9 /\ codec.mid[k] % 16 \in 0..9
    /\ codec.op = "bcd_to_int_le" => codec.out = codec.in

C4_Witness ==
  /\ codec.op = "bcd_to_int_le"
  /\ codec.in = PyInt(1234567890)
  /\ codec.mid = <<144, 120, 86, 52, 18>>

\* C5 as stated: the FREQUENCY reply payload 00 30 01 40 01 decodes to
\* 14,013,000 Hz.
C5_Decodes14013000 ==
  \A t \in Threads :
    pc[t] = "done" /\ req[t].name = "FREQUENCY" /\ decoded[t]
      /\ raw[t] = <<0, 48, 1, 64, 1>>
    => ret[t].kind = "value" /\ ret[t].v.ty = "int" /\ ret[t].v.i = 14013000

\* C5 as amended: the FREQUENCY reply payload 00 30 01 40 01 decodes to
\* 140,013,000 Hz.
C5_Decodes140013000 ==
  \A t \in Threads :
    pc[t] = "done" /\ req[t].name = "FREQUENCY" /\ decoded[t]
      /\ raw[t] = <<0, 48, 1, 64, 1>>
    => ret[t].kind = "value" /\ ret[t].v.ty = "int" /\ ret[t].v.i = 140013000

C5_Witness ==
  /\ pc["main"] = "done"
  /\ req["main"].name = "FREQUENCY"
  /\ req["main"].data_bytes = <<>>
  /\ decoded["main"]
  /\ frame["main"] = <<254, 254, 206, radio_addr, 37, 0, 0, 48, 1, 64, 1, 253>>
  /\ raw["main"] = <<0, 48, 1, 64, 1>>

\* C6: every frame written is FE FE <radio> CE <Cn> <Sc> [data] FD with Cn
\* and Sc of the requested command; with an absent or empty argument (and
\* a command other than TUNE) there is no data, and a FREQUENCY read for
\* radio 0x94 writes FE FE 94 CE 25 00 FD.
C6_FrameFormat ==
  \A t \in Threads : \A i \in 1..Len(sent[t]) :
    LET f == sent[t][i]
        n == req[t].name
        a == req[t].data
    IN  /\ n \in DOMAIN InitialCommands
        /\ Len(f) >= 7
        /\ f[1] = 254 /\ f[2] = 254
        /\ f[3] = radio_addr
        /\ f[4] = 206
        /\ f[5] = InitialCommands[n].Cn
        /\ f[6] = InitialCommands[n].Sc
        /\ f[Len(f)] = 253
        /\ (n # "TUNE" /\ (a.ty = "none" \/ (a.ty = "str" /\ a.s = <<>>)))
             => Len(f) = 7
        /\ (n = "FREQUENCY" /\ a.ty = "none" /\ radio_addr = 148)
             => f = <<254, 254, 148, 206, 37, 0, 253>>

C6_Witness ==
  /\ radio_addr = 148
  /\ req["main"].name = "FREQUENCY"
  /\ req["main"].data.ty = "none"
  /\ sent["main"] = << <<254, 254, 148, 206, 37, 0, 253>> >>

\* the two upper-case hexadecimal digits of a byte
TwoHexDigits(b) ==
  LET hx == <<"0", "1", "2", "3", "4", "5", "6", "7", "8", "9",
              "A", "B", "C", "D", "E", "F">>
  IN  << hx[(b \div 16) + 1], hx[(b % 16) + 1] >>

\* C7: for a write request, a response frame with a one-byte body is
\* returned as that byte in two upper-case hexadecimal digits, and
\* _process_response is not invoked on it.
C7_StatusAsHex ==
  \A t \in Threads :
    pc[t] = "done" /\ req[t].data_bytes # <<>>
      /\ IsRadioFrame(frame[t]) /\ Len(frame[t]) = 6
    => /\ ret[t].kind = "value"
       /\ ret[t].v.ty = "str"
       /\ ret[t].v.s = TwoHexDigits(frame[t][5])
       /\ ~decoded[t]

C7_Witness ==
  /\ pc["main"] = "done"
  /\ req["main"].name = "MODE"
  /\ req["main"].data_bytes = <<1>>
  /\ frame["main"] = <<254, 254, 206, radio_addr, 251, 253>>
  /\ ret["main"] = Value(PyStr(<<"F", "B">>))

\* C8: a one-byte NACK reply (FA) to any request, read or write, is surfaced
\* as the raw status code and is never decoded into a value.
C8_NackSurfaced ==
  \A t \in Threads :
    pc[t] = "done" /\ frame[t] = <<254, 254, 206, radio_addr, 250, 253>>
    => /\ ~decoded[t]
       /\ ret[t].kind = "value"
       /\ ret[t].v.ty = "str"
       /\ ret[t].v.s = <<"F", "A">>

\* C9: a name that is not an exact key of the registry fails with an error
\* reported to the caller, nothing is written and nothing is read; no call
\* changes the registry.
C9_UnknownCommand ==
  /\ commands = InitialCommands
  /\ \A t \in Threads :
       pc[t] = "done" /\ req[t].name \in Names \ DOMAIN InitialCommands
       => /\ ret[t].kind = "error"
          /\ sent[t] = <<>>
          /\ ~didRead[t]

C9_Witness ==
  /\ pc["main"] = "done"
  /\ req["main"].name = "frequency"
  /\ ret["main"] = Error("KeyError")
  /\ rx # <<>>

ContainsLetter(s) ==
  \E k \in 1..Len(s) :
    \/ \E j \in 1..26 : LowerChars[j] = s[k]
    \/ \E j \in 1..26 : UpperChars[j] = s[k]

IsModeLabel(s) == \E k \in 1..Len(ModeTable) : ModeTable[k].label = Upper(s)

\* the argument is a string int() cannot parse, for a numeric command, or a
\* MODE string that is neither a label nor a number
Unencodable(name, data) ==
  /\ data.ty = "str"
  /\ ContainsLetter(data.s)
  /\ \/ name \in {"FREQUENCY", "POWER_OUTPUT", "FILTER_WIDTH", "QSK"}
     \/ name = "MODE" /\ ~IsModeLabel(data.s)

\* C10: when the argument cannot be encoded, send_command_by_name reports
\* an error and writes no frame.
C10_EncodeError ==
  \A t \in Threads :
    pc[t] # "idle" /\ Unencodable(req[t].name, req[t].data)
    => /\ pc[t] = "done"
       /\ ret[t].kind = "error"
       /\ sent[t] = <<>>
       /\ ~didRead[t]

C10_Witness ==
  /\ pc["main"] = "done"
  /\ req["main"].name = "MODE"
  /\ req["main"].data = PyStr(<<"A", "B", "C">>)
  /\ ret["main"] = Error("ValueError")
  /\ sent["main"] = <<>>

\* the bytes of a written frame between the sub-command and the terminator
Payload(f) == SubSeq(f, 7, Len(f) - 1)

\* C11: no written frame has the terminator byte FD inside its payload: a
\* request whose encoded payload would contain FD is rejected with an error
\* and nothing is written.
C11_NoTerminatorInPayload ==
  \A t \in Threads :
    \A k \in 1..Len(sent[t]) :
      \A j \in 1..Len(Payload(sent[t][k])) : Payload(sent[t][k])[j] # 253

\* the value tells the caller that nothing was obtained: None or empty
IsEmptyResult(r) ==
  /\ r.kind = "value"
  /\ \/ r.v.ty = "none"
     \/ r.v.ty = "bytes" /\ r.v.b = <<>>
     \/ r.v.ty = "str" /\ r.v.s = <<>>

\* C12: when a call that wrote its frame ends without a matching response
\* frame, send_command_by_name hands the caller an empty or failure result
\* for every registry command, never a decoded value.
C12_TimeoutIsEmpty ==
  \A t \in Threads :
    pc[t] = "done" /\ sent[t] # <<>> /\ ~IsRadioFrame(frame[t])
    => ret[t].kind = "error" \/ IsEmptyResult(ret[t])

\* C13: what _read_frame hands to receive_response is either empty or ends
\* with the terminator FD: a chunk cut short by the read timeout is returned
\* as empty, so it is never classified or stripped as a frame.
C13_FrameEndsWithEOM ==
  \A t \in Threads :
    frame[t] = <<>> \/ frame[t][Len(frame[t])] = 253

\* C14: a power percentage p in 0..100, encoded by _power_to_bytes and
\* decoded by _scale_power, comes back within 1 of p.
C14_PowerRoundTrip ==
  (codec.op = "scale_power" /\ codec.in.i >= 0 /\ codec.in.i <= 100)
    => /\ codec.out.ty = "int"
       /\ codec.out.i - codec.in.i <= 1
       /\ codec.in.i - codec.out.i <= 1

C14_Witness ==
  /\ codec.op = "scale_power"
  /\ codec.in = PyInt(30)
  /\ codec.mid = <<0, 118>>
  /\ codec.out = PyInt(30)

\* the number a two-byte big-endian packed BCD string spells
Bcd4(bs) ==
  1000 * (bs[1] \div 16) + 100 * (bs[1] % 16) + 10 * (bs[2] \div 16) + (bs[2] % 16)

\* C15: for every integer p, _power_to_bytes emits exactly two bytes, the
\* big-endian packed BCD of the four decimal digits of a raw value in 0..255
\* that is the nearest integer to 2.55 times p clamped to 0..100; 75 gives
\* 01 91, every p <= 0 gives 00 00 and every p >= 100 gives 02 55.
C15_PowerToBytes ==
  codec.op \in {"power_to_bytes", "scale_power"}
    => LET p  == codec.in.i
           bs == codec.mid
           c  == IF p < 0 THEN 0 ELSE IF p > 100 THEN 100 ELSE p
       IN  /\ Len(bs) = 2
           /\ \A k \in 1..2 : bs[k] \div 16 <= 9 /\ bs[k] % 16 <= 9
           /\ Bcd4(bs) \in 0..255
           /\ 2 * (100 * Bcd4(bs) - 255 * c) <= 100
           /\ 2 * (255 * c - 100 * Bcd4(bs)) <= 100
           /\ p = 75 => bs = <<1, 145>>
           /\ p <= 0 => bs = <<0, 0>>
           /\ p >= 100 => bs = <<2, 85>>

C15_Witness ==
  /\ codec.op = "power_to_bytes"
  /\ codec.in = PyInt(256)
  /\ codec.mid = <<2, 85>>

\* the eight mode labels
ModeLabels ==
  { <<"L", "S", "B">>, <<"U", "S", "B">>, <<"A", "M">>, <<"C", "W">>,
    <<"R", "T", "T", "Y">>, <<"F", "M">>, <<"C", "W", "-", "R">>,
    <<"R", "T", "Y", "R">> }

\* the decimal text of a byte value
ByteDecimal(b) ==
  LET d(n) == DecDigits[n + 1]
  IN  IF b < 10 THEN << d(b) >>
      ELSE IF b < 100 THEN << d(b \div 10), d(b % 10) >>
      ELSE << d(b \div 100), d((b \div 10) % 10), d(b % 10) >>

\* C16: a mode label given in any letter case is encoded to a byte that
\* decodes to the upper-case label, and a byte value 0..255 given as an
\* integer or as decimal text is encoded to that single byte; none of these
\* arguments is refused.
C16_ModeRoundTrip ==
  /\ \A L \in ModeLabels :
       (codec.in.ty = "str" /\ codec.in.s \in CaseVariants(L))
       => /\ codec.op \in {"none", "encode_mode", "decode_mode"}
          /\ codec.op = "decode_mode" => codec.out = PyStr(L)
  /\ \A b \in 0..255 :
       (codec.op \in {"encode_mode", "encode_mode_raised", "decode_mode"}
          /\ (codec.in = PyInt(b) \/ codec.in = PyStr(ByteDecimal(b))))
       => /\ codec.op # "encode_mode_raised"
          /\ codec.mid = <<b>>

C16_Witness ==
  /\ codec.op = "decode_mode"
  /\ codec.in = PyStr(<<"c", "W", "-", "r">>)
  /\ codec.mid = <<7>>
  /\ codec.out = PyStr(<<"C", "W", "-", "R">>)

\* C17: decoding a non-empty MODE payload never fails, and a first byte b
\* other than 0..5, 7, 8 gives the label UNKNOWN(b) with b in decimal: 9
\* gives UNKNOWN(9) and 6 gives UNKNOWN(6).
C17_UnknownMode ==
  (codec.op = "process_response" /\ codec.mid # <<>>)
    => LET b == codec.mid[1]
       IN  /\ codec.out.ty = "str"
           /\ b \notin (0..5) \cup {7, 8}
                => codec.out.s = <<"U", "N", "K", "N", "O", "W", "N", "(">>
                                   \o ByteDecimal(b) \o <<")">>
           /\ b = 9 => codec.out.s = <<"U", "N", "K", "N", "O", "W", "N", "(", "9", ")">>
           /\ b = 6 => codec.out.s = <<"U", "N", "K", "N", "O", "W", "N", "(", "6", ")">>

C17_Witness ==
  /\ codec.op = "process_response"
  /\ codec.mid = <<6, 1>>
  /\ codec.out = PyStr(<<"U", "N", "K", "N", "O", "W", "N", "(", "6", ")">>)

C19_NoRetry ==
  \A t \in Threads :
    /\ Len(sent[t]) <= 1
    /\ pc[t] \in {"recv", "done"} /\ req[t].name # ""
       => Len(sent[t]) =
            IF req[t].name \in {"FREQUENCY", "FILTER_WIDTH", "POWER_OUTPUT",
                                "MODE", "QSK", "TUNE"}
               /\ ~Unencodable(req[t].name, req[t].data)
            THEN 1 ELSE 0

C19_Witness ==
  /\ pc["main"] = "recv"
  /\ didRead["main"]
  /\ elapsed["main"] > 4
  /\ Len(sent["main"]) = 1

\* C20: the udp_basic server sends exactly one reply for every instruction
\* datagram: Invalid when the line is not one or two space-separated tokens,
\* Error when the request failed (unknown command, argument that cannot be
\* encoded, or no response frame from the radio), and otherwise the decoded
\* value as text.
C20_OneReplyPerDatagram ==
  /\ Len(server.replies) <= 1
  /\ server.handled =>
       /\ Len(server.replies) = 1
       /\ Len(Split(server.instruction)) \notin {1, 2}
            => server.replies[1] = <<"I", "n", "v", "a", "l", "i", "d">>
       /\ pc["main"] = "done" =>
            server.replies[1] =
              IF \/ ret["main"].kind = "error"
                 \/ sent["main"] # <<>> /\ ~IsRadioFrame(frame["main"])
              THEN <<"E", "r", "r", "o", "r">>
              ELSE StrOf(ret["main"].v)

\* C21: the serial connection is released on every exit path: once the
\* program that opened the port has ended, by an error or by a keyboard
\* interrupt, CIVSerial.close has been called and the port is not open.
C21_PortReleasedOnExit ==
  server.stopped => ~is_open

\* C22: for a write request the value decoder is bypassed only for a
\* status-only reply: a complete response frame whose body is command,
\* sub-command and data is decoded by _process_response, also when the data
\* is a single byte.
C22_DataReplyDecoded ==
  \A t \in Threads :
    (/\ pc[t] = "done"
     /\ req[t].data_bytes # <<>>
     /\ IsRadioFrame(frame[t])
     /\ Len(frame[t]) >= 8
     /\ frame[t][Len(frame[t])] = 253)
    => decoded[t]

\* C23: receive_response does not give up while a response can still come
\* within the 2-second window: a call ends empty-handed on an idle read (no
\* bytes for the 1.0 s read timeout) only if that read ends 2 seconds or
\* more after the request, so a response that arrives within the window
\* after one idle read is still read and returned.
C23_WaitsWholeWindow ==
  [][\A t \in Threads :
       (pc[t] = "recv" /\ pc'[t] = "done" /\ frame'[t] = <<>>)
       => elapsed[t] + 2 >= 4]_vars

\* C24: across sequential calls, the frame a call's result is taken from was
\* sent by the radio in reply to that call's request: it was not already in
\* the input buffer when the request was written, so the late reply to an
\* earlier call that timed out is never returned as the result of a later
\* call.
C24_ReplyBelongsToCall ==
  \A t \in Threads :
    pc[t] = "done" /\ IsRadioFrame(frame[t]) => stale[t] = 0

====
